---- MODULE Spec2Model ----
(***************************************************************************)
(* Model of the Jira reopen-report pipeline:                               *)
(*   scripts/export_jira.py  - field resolution, paginated search with     *)
(*                             endpoint fallback, row flattening, CSV      *)
(*   scripts/reports.py      - reopen-event extraction and aggregation     *)
(* Text is modelled as sequences of one-character strings so that the      *)
(* string operations of the code (strip, lower, split, startswith, regex   *)
(* search) are computed and not assumed.                                   *)
(***************************************************************************)
EXTENDS Integers, Sequences, FiniteSets, TLC

(***************************************************************************)
(* Bounds of the model                                                     *)
(***************************************************************************)
MaxFields == 2
MaxIssues == 3
MaxPageSize == 2
MaxCalls == 4
MaxRows == 2

(***************************************************************************)
(* Python values that are not text                                         *)
(***************************************************************************)
\* None / a missing key / a JSON null: a one-element sequence that no text equals
None == <<"None">>
\* pandas' NaN for an empty CSV cell
NaN == <<"NaN">>

(***************************************************************************)
(* Text helpers (str methods used by the code)                             *)
(***************************************************************************)
UpperChars == <<"A","B","C","D","E","F","G","H","I","J","K","L","M",
                "N","O","P","Q","R","S","T","U","V","W","X","Y","Z">>
LowerChars == <<"a","b","c","d","e","f","g","h","i","j","k","l","m",
                "n","o","p","q","r","s","t","u","v","w","x","y","z">>
Digits == <<"0","1","2","3","4","5","6","7","8","9">>

\* str.lower() on one character
LowerChar(c) ==
  IF \E i \in 1..26 : UpperChars[i] = c
  THEN LowerChars[CHOOSE i \in 1..26 : UpperChars[i] = c]
  ELSE c

\* str.lower()
Lower(s) == [i \in 1..Len(s) |-> LowerChar(s[i])]

IsSpace(c) == c \in {" ", "\t"}

\* str.strip()
Strip(s) ==
  IF \A i \in 1..Len(s) : IsSpace(s[i]) THEN <<>>
  ELSE LET a == CHOOSE i \in 1..Len(s) :
                  ~IsSpace(s[i]) /\ \A j \in 1..(i-1) : IsSpace(s[j])
           b == CHOOSE i \in 1..Len(s) :
                  ~IsSpace(s[i]) /\ \A j \in (i+1)..Len(s) : IsSpace(s[j])
       IN SubSeq(s, a, b)

\* str.startswith(p)
StartsWith(s, p) == Len(p) <= Len(s) /\ SubSeq(s, 1, Len(p)) = p

\* str.endswith(p)
EndsWith(s, p) == Len(p) <= Len(s) /\ SubSeq(s, Len(s) - Len(p) + 1, Len(s)) = p

\* sub occurs in s at position i
OccursAt(s, sub, i) ==
  i >= 1 /\ i + Len(sub) - 1 <= Len(s) /\ SubSeq(s, i, i + Len(sub) - 1) = sub

\* "sub in s"
Contains(s, sub) == \E i \in 1..(Len(s) + 1) : OccursAt(s, sub, i)

\* str.find(sub) as a 1-based position, 0 when absent
Find(s, sub) ==
  IF Contains(s, sub)
  THEN CHOOSE i \in 1..(Len(s) + 1) :
         OccursAt(s, sub, i) /\ \A j \in 1..(i-1) : ~OccursAt(s, sub, j)
  ELSE 0

(***************************************************************************)
(* export_jira.py: field resolver                                          *)
(***************************************************************************)
DEFAULT_REOPEN_COUNT_NAME == <<"R","e","o","p","e","n"," ","C","o","u","n","t">>
DEFAULT_REOPEN_LOG_NAME == <<"R","e","o","p","e","n"," ","l","o","g">>
KEYWORD == <<"r","e","o","p","e","n">>

\* normalize_name: strip, lower, drop a bracketed suffix
normalize_name(s) ==
  LET t == Strip(Lower(IF s = None THEN <<>> ELSE s))
  IN IF Contains(t, <<"[">>) THEN Strip(SubSeq(t, 1, Find(t, <<"[">>) - 1)) ELSE t

\* the key build_field_indexes files a descriptor under: (name or "").strip().lower()
NameKey(f) == Lower(Strip(IF f.name = None THEN <<>> ELSE f.name))

\* by_name of build_field_indexes: its keys in insertion order ...
RECURSIVE KeysInOrder(_)
KeysInOrder(fields) ==
  IF fields = <<>> THEN <<>>
  ELSE LET init == KeysInOrder(SubSeq(fields, 1, Len(fields) - 1))
           k == NameKey(fields[Len(fields)])
       IN IF k = <<>> \/ \E i \in 1..Len(init) : init[i] = k THEN init
          ELSE Append(init, k)

\* ... and the descriptors filed under one key, in list order
ByName(fields, key) == SelectSeq(fields, LAMBDA f : NameKey(f) = key)

\* by_id of build_field_indexes: its keys in insertion order
RECURSIVE IdsInOrder(_)
IdsInOrder(fields) ==
  IF fields = <<>> THEN <<>>
  ELSE LET init == IdsInOrder(SubSeq(fields, 1, Len(fields) - 1))
           fid == fields[Len(fields)].id
       IN IF fid = None \/ fid = <<>> \/ \E i \in 1..Len(init) : init[i] = fid
          THEN init
          ELSE Append(init, fid)

\* the first element a loop with an early return meets (None when it meets none)
FirstOf(matching) == IF matching = <<>> THEN None ELSE matching[1]

\* the "Reopen-like fields" the not-found diagnostic lists
ReopenCandidates(fields) ==
  SelectSeq(fields,
    LAMBDA f : Contains(Lower(IF f.name = None THEN <<>> ELSE f.name), KEYWORD))

\* resolve_cf_id with an explicit identifier
ResolveById(fields, wanted_id) ==
  LET ids == IdsInOrder(fields)
      suffix == FirstOf(SelectSeq(ids, LAMBDA fid : EndsWith(fid, wanted_id)))
  IN IF \E i \in 1..Len(ids) : ids[i] = wanted_id
     THEN [id |-> wanted_id, how |-> "explicit", key |-> None, listed |-> <<>>]
     ELSE IF suffix # None
     THEN [id |-> suffix, how |-> "suffix", key |-> None, listed |-> <<>>]
     ELSE [id |-> None, how |-> "explicit_not_found", key |-> None, listed |-> <<>>]

\* the first loop over by_name: normalized equality and prefix, tested key by key
NormOrPrefix(key, norm) == normalize_name(key) = norm \/ StartsWith(key, norm)

\* resolve_cf_id by display name
ResolveByName(fields, wanted_name) ==
  LET norm == normalize_name(wanted_name)
      keys == KeysInOrder(fields)
      k1 == FirstOf(SelectSeq(keys, LAMBDA k : NormOrPrefix(k, norm)))
      k2 == FirstOf(SelectSeq(keys, LAMBDA k : norm # <<>> /\ Contains(k, norm)))
  IN IF \E i \in 1..Len(keys) : keys[i] = norm
     THEN [id |-> ByName(fields, norm)[1].id, how |-> "exact", key |-> norm,
           listed |-> <<>>]
     ELSE IF k1 # None
     THEN [id |-> ByName(fields, k1)[1].id,
           how |-> IF normalize_name(k1) = norm THEN "normalized" ELSE "prefix",
           key |-> k1, listed |-> <<>>]
     ELSE IF k2 # None
     THEN [id |-> ByName(fields, k2)[1].id, how |-> "contains", key |-> k2,
           listed |-> <<>>]
     ELSE [id |-> None, how |-> "not_found", key |-> None,
           listed |-> ReopenCandidates(fields)]

\* resolve_cf_id(wanted_name, wanted_id, all_fields)
resolve_cf_id(fields, wanted_name, wanted_id) ==
  IF wanted_id # None /\ wanted_id # <<>>
  THEN ResolveById(fields, wanted_id)
  ELSE ResolveByName(fields, wanted_name)


(***************************************************************************)
(* export_jira.py: row flattener                                           *)
(***************************************************************************)
HEADERS == <<"Issue key", "Issue Type", "Issue id", "Summary", "Assignee",
             "Assignee Id", "Custom field (Reopen Count)",
             "Custom field (Reopen log )">>

\* sep.join(list)
RECURSIVE Join(_, _)
Join(list, sep) ==
  IF list = <<>> THEN <<>>
  ELSE IF Len(list) = 1 THEN list[1]
  ELSE list[1] \o sep \o Join(Tail(list), sep)

\* x or ""
OrEmpty(x) == IF x = None THEN <<>> ELSE x

\* FlattenLog as it would be if a list were joined with line breaks
MutFlattenLog_JoinLines(log) ==
  IF log.kind = "null" THEN <<>>
  ELSE IF log.kind = "list" THEN Join(log.val, <<"\n">>)
  ELSE log.val

\* the reopen-log cell: "" for null, "; ".join for a list, else verbatim
FlattenLog(log) ==
  IF log.kind = "null" THEN <<>>
  ELSE IF log.kind = "list" THEN Join(log.val, <<";", " ">>)
  ELSE log.val

\* the body of main's "for issue in issues" loop: one issue to one row
Flatten(issue) ==
  [key |-> OrEmpty(issue.key),
   issue_type |-> OrEmpty(issue.issuetype),
   id |-> OrEmpty(issue.id),
   summary |-> OrEmpty(issue.summary),
   assignee |-> IF issue.assignee = None THEN <<>>
                ELSE OrEmpty(issue.assignee[1]),
   assignee_id |-> IF issue.assignee = None THEN <<>>
                   ELSE OrEmpty(issue.assignee[2]),
   reopen_count |-> OrEmpty(issue.count),
   reopen_log |-> FlattenLog(issue.log)]

(***************************************************************************)
(* reports.py: reopen-event extractor                                      *)
(***************************************************************************)
IsDigit(c) == \E i \in 1..10 : Digits[i] = c

\* DATE_RE matches at position i: \d{4}-\d{2}-\d{2}
DateAt(line, i) ==
  /\ i >= 1 /\ i + 9 <= Len(line)
  /\ \A j \in {0, 1, 2, 3, 5, 6, 8, 9} : IsDigit(line[i + j])
  /\ line[i + 4] = "-" /\ line[i + 7] = "-"

\* DATE_RE.search(line): the position of the first match, 0 when there is none
DateSearch(line) ==
  IF \E i \in 1..Len(line) : DateAt(line, i)
  THEN CHOOSE i \in 1..Len(line) :
         DateAt(line, i) /\ \A j \in 1..(i - 1) : ~DateAt(line, j)
  ELSE 0

ASSIGNEE_MARKER == <<"A","s","s","i","g","n","e","e",":">>

\* ASSIGNEE_RE.search(line).group(1).strip() on a line without a newline: the
\* text after the first marker up to the end of the line, stripped
AssigneeGroup(line) ==
  Strip(SubSeq(line, Find(line, ASSIGNEE_MARKER) + Len(ASSIGNEE_MARKER), Len(line)))

\* str.splitlines() for "\n"
RECURSIVE SplitLines(_)
SplitLines(text) ==
  IF text = <<>> THEN <<>>
  ELSE LET i == Find(text, <<"\n">>)
       IN IF i = 0 THEN <<text>>
          ELSE <<SubSeq(text, 1, i - 1)>> \o SplitLines(SubSeq(text, i + 1, Len(text)))

\* the event of one line that holds a date
EventOfLine(row, line) ==
  [key |-> row.key, issue_type |-> row.issue_type, summary |-> row.summary,
   assignee |-> IF Contains(line, ASSIGNEE_MARKER) THEN AssigneeGroup(line)
                ELSE row.assignee,
   date |-> SubSeq(line, DateSearch(line), DateSearch(line) + 9)]

\* _extract_reopen_events(row)
RECURSIVE EventsOfLines(_, _)
EventsOfLines(row, lines) ==
  IF lines = <<>> THEN <<>>
  ELSE (IF DateSearch(lines[1]) = 0 THEN <<>> ELSE <<EventOfLine(row, lines[1])>>)
       \o EventsOfLines(row, Tail(lines))

extract_reopen_events(row) == EventsOfLines(row, SplitLines(row.reopen_log))

\* _issue_key_to_project(issue_key)
issue_key_to_project(issue_key) ==
  IF issue_key = NaN THEN <<>>
  ELSE IF Find(issue_key, <<"-">>) >= 2
       THEN SubSeq(issue_key, 1, Find(issue_key, <<"-">>) - 1)
       ELSE <<>>

(***************************************************************************)
(* reports.py: what pandas does with the cells                             *)
(***************************************************************************)
\* the cell texts read_csv takes for a missing value, besides the empty cell
NaStrings == {<<"N","A">>, <<"N","/","A">>, <<"n","u","l","l">>, <<"n","a","n">>,
              <<"N","a","N">>}

\* pd.read_csv on one cell
ReadCsvCell(v) == IF v = <<>> \/ v \in NaStrings THEN NaN ELSE v

\* Series.fillna('')
FillNa(v) == IF v = NaN THEN <<>> ELSE v

\* lines 49-55: one exported row as process() reads it
ReadRow(r) ==
  [key |-> ReadCsvCell(r.key),
   issue_type |-> ReadCsvCell(r.issue_type),
   summary |-> ReadCsvCell(r.summary),
   assignee |-> FillNa(ReadCsvCell(r.assignee)),
   reopen_log |-> FillNa(ReadCsvCell(r.reopen_log))]

DigitValue(c) == (CHOOSE i \in 1..10 : Digits[i] = c) - 1
Number(s) ==
  IF Len(s) = 2 THEN 10 * DigitValue(s[1]) + DigitValue(s[2])
  ELSE 1000 * DigitValue(s[1]) + 100 * DigitValue(s[2]) + 10 * DigitValue(s[3])
       + DigitValue(s[4])

DaysInMonth(y, m) ==
  IF m \in {4, 6, 9, 11} THEN 30
  ELSE IF m = 2
       THEN (IF (y % 4 = 0 /\ y % 100 # 0) \/ y % 400 = 0 THEN 29 ELSE 28)
       ELSE 31

NaT == <<"NaT">>

\* lines 69-70: pd.to_datetime(errors='coerce') then .dt.to_period('M').astype(str)
\* on a YYYY-MM-DD text (years pandas can represent): "YYYY-MM", or "NaT"
MonthOfDate(d) ==
  LET y == Number(SubSeq(d, 1, 4))
      m == Number(SubSeq(d, 6, 7))
      day == Number(SubSeq(d, 9, 10))
  IN IF m >= 1 /\ m <= 12 /\ day >= 1 /\ day <= DaysInMonth(y, m)
     THEN SubSeq(d, 1, 7)
     ELSE NaT

\* line 46: re.match(r'^\d{4}-\d{2}$', month) on the stripped MONTH
ValidMonth(month) ==
  /\ Len(month) = 7
  /\ \A j \in {1, 2, 3, 4, 6, 7} : IsDigit(month[j])
  /\ month[5] = "-"

\* lines 69-74: the events of the target month, each with its Project
InMonthEvents(events, month) ==
  LET kept == SelectSeq(events, LAMBDA e : MonthOfDate(e.date) = month)
  IN [i \in 1..Len(kept) |->
        [key |-> kept[i].key, issue_type |-> kept[i].issue_type,
         summary |-> kept[i].summary, assignee |-> kept[i].assignee,
         date |-> kept[i].date, project |-> issue_key_to_project(kept[i].key)]]

\* the order of Python's str: by code point, for the characters the model uses
CharOrder == <<"\t", "\n", " ", "-", "/">> \o Digits \o <<":", ";">> \o UpperChars
             \o <<"[", "]", "_">> \o LowerChars
CharCode(c) == CHOOSE i \in 1..Len(CharOrder) : CharOrder[i] = c

RECURSIVE StrCompare(_, _)
\* -1, 0 or 1 as a < b, a = b, a > b
StrCompare(a, b) ==
  IF a = <<>> /\ b = <<>> THEN 0
  ELSE IF a = <<>> THEN -1
  ELSE IF b = <<>> THEN 1
  ELSE IF CharCode(a[1]) < CharCode(b[1]) THEN -1
  ELSE IF CharCode(a[1]) > CharCode(b[1]) THEN 1
  ELSE StrCompare(Tail(a), Tail(b))

RECURSIVE TupleCompare(_, _)
\* tuples of texts, component by component
TupleCompare(a, b) ==
  IF a = <<>> THEN 0
  ELSE IF StrCompare(a[1], b[1]) # 0 THEN StrCompare(a[1], b[1])
  ELSE TupleCompare(Tail(a), Tail(b))

RECURSIVE SortedKeys(_)
\* the group keys in ascending order (groupby's sort=True)
SortedKeys(S) ==
  IF S = {} THEN <<>>
  ELSE LET least == CHOOSE k \in S : \A o \in S : TupleCompare(k, o) <= 0
       IN <<least>> \o SortedKeys(S \ {least})

\* DataFrame.groupby(keys).size().reset_index() on the rows' key tuples: one
\* <<key tuple, count>> per group, in key order; a row with NaN in a key column
\* is in no group (dropna)
GroupSizes(row_keys) ==
  LET grouped == SelectSeq(row_keys, LAMBDA k : \A j \in 1..Len(k) : k[j] # NaN)
      keys == SortedKeys({grouped[i] : i \in 1..Len(grouped)})
  IN [g \in 1..Len(keys) |->
        <<keys[g], Cardinality({i \in 1..Len(grouped) : grouped[i] = keys[g]})>>]

RECURSIVE InsertTicket(_, _)
\* the place of a by-ticket group among sorted ones: after every group whose
\* (Assignee, Issue key) is not greater (a stable sort)
InsertTicket(sorted, g) ==
  IF sorted = <<>> THEN <<g>>
  ELSE IF TupleCompare(<<sorted[1][1][4], sorted[1][1][1]>>, <<g[1][4], g[1][1]>>) <= 0
       THEN <<sorted[1]>> \o InsertTicket(Tail(sorted), g)
       ELSE <<g>> \o sorted

RECURSIVE SortTickets(_)
\* sort_values(['Assignee', 'Issue key'])
SortTickets(groups) ==
  IF groups = <<>> THEN <<>>
  ELSE InsertTicket(SortTickets(SubSeq(groups, 1, Len(groups) - 1)),
                    groups[Len(groups)])

USER_HEADER == <<"Project", "Assignee", "Reopens Count">>
TICKET_HEADER == <<"Issue key", "Issue Type", "Summary", "Reopens Count", "Assignee">>

\* lines 77-83: reopens_by_user.csv below its header
ByUser(events) ==
  LET groups == GroupSizes([i \in 1..Len(events) |->
                              <<events[i].project, events[i].assignee>>])
  IN [g \in 1..Len(groups) |->
        [project |-> groups[g][1][1], assignee |-> groups[g][1][2],
         count |-> groups[g][2]]]

\* lines 86-94: reopens_by_ticket.csv below its header
ByTicket(events) ==
  LET groups == SortTickets(GroupSizes([i \in 1..Len(events) |->
                  <<events[i].key, events[i].issue_type, events[i].summary,
                    events[i].assignee>>]))
  IN [g \in 1..Len(groups) |->
        [key |-> groups[g][1][1], issue_type |-> groups[g][1][2],
         summary |-> groups[g][1][3], count |-> groups[g][2],
         assignee |-> groups[g][1][4]]]

(***************************************************************************)
(* The tracker: the issues that match the query, in the server's order     *)
(***************************************************************************)
ALICE == <<"A","l","i","c","e">>
BOB == <<"B","o","b">>
LINE_ALICE == <<"2","0","2","5","-","0","9","-","0","2"," ","A","s","s","i","g",
                "n","e","e",":"," ","A","l","i","c","e">>
LINE_BOB == <<"2","0","2","5","-","0","9","-","1","5"," ","A","s","s","i","g",
              "n","e","e",":"," ","B","o","b">>

ServerIssue(i) ==
  [key |-> <<"A","B","C","-", Digits[(i % 10) + 1]>>,
   id |-> <<"1","0", Digits[(i % 10) + 1]>>,
   issuetype |-> IF i % 2 = 0 THEN None ELSE <<"B","u","g">>,
   summary |-> IF i % 3 = 0 THEN None ELSE <<"s", Digits[(i % 10) + 1]>>,
   assignee |-> IF i % 2 = 0 THEN None ELSE <<ALICE, <<"u","1">>>>,
   count |-> <<Digits[(i % 10) + 1]>>,
   log |-> IF i % 3 = 1 THEN [kind |-> "str", val |-> LINE_ALICE \o <<"\n">> \o LINE_BOB]
           ELSE IF i % 3 = 2 THEN [kind |-> "list", val |-> <<LINE_ALICE, LINE_BOB>>]
           ELSE [kind |-> "null", val |-> <<>>]]

\* the rows of the issues numbered a..b
FlattenRange(a, b) == [j \in 1..(b - a + 1) |-> Flatten(ServerIssue(a + j - 1))]

(***************************************************************************)
(* State                                                                   *)
(***************************************************************************)
VARIABLES
  \* exporter (export_jira.py main)
  pc,          \* where main is
  env,         \* the process environment and arguments
  n_issues,    \* how many issues match the query on the server
  all_fields,  \* the descriptor list fetched from /field
  cf_ids,      \* <<cf_reopen_count, cf_reopen_log>>
  infos,       \* <<info1, info2>> of the two resolutions
  rows, start_at, total, data,
  calls,       \* number of jira_search_any calls so far
  attempts,    \* the requests of the current jira_search_any call
  adopted,     \* history: the first endpoint that answered successfully (0: none)
  sane,        \* history: every answer so far reported its total and a page size >= 1
  fatal,       \* the fatal diagnostic written to stderr ("none" while there is none)
  exit_code,   \* the process exit status (NotExited while running)
  out_file,    \* the file --out names: whether it exists, and its lines
  \* resolver called on its own
  r_pc, r_in, r_res,
  \* reporter (reports.py process)
  rp_pc,       \* where process is
  MONTH,       \* the MONTH environment variable
  src_issues,  \* history: the issues the exporter flattened into export.csv
  export_csv,  \* the input file: has the reopen-log column or not, and its rows
  df,          \* the DataFrame read from it
  per_row,     \* history: what each _extract_reopen_events call returned
  all_events,
  user_csv, ticket_csv   \* the two report files

exportVars == <<pc, env, n_issues, all_fields, cf_ids, infos, rows, start_at, total,
                data, calls, attempts, adopted, sane, fatal, exit_code, out_file>>
resolveVars == <<r_pc, r_in, r_res>>
reportVars == <<rp_pc, MONTH, src_issues, export_csv, df, per_row, all_events,
                user_csv, ticket_csv>>
vars == <<exportVars, resolveVars, reportVars>>
\* what the exporter never touches
notExportVars == <<resolveVars, reportVars>>

\* a dict key that is absent / a variable not yet set (numbers)
Missing == -1
NotExited == -1
DEFAULT_MAX_RESULTS == 100


Min(a, b) == IF a <= b THEN a ELSE b
Max(a, b) == IF a >= b THEN a ELSE b

(***************************************************************************)
(* Field descriptors the tracker may report                                *)
(***************************************************************************)
NAME_LOG_BRACKET == <<"R","e","o","p","e","n"," ","l","o","g"," ","[","S","h","o",
                      "r","t"," ","t","e","x","t","]">>
NAME_LOG_HISTORY == <<"R","e","o","p","e","n"," ","l","o","g"," ","h","i","s","t",
                      "o","r","y">>
NAME_MY_LOG == <<"M","y"," ","r","e","o","p","e","n"," ","l","o","g">>
NAME_SEVERITY == <<"S","e","v","e","r","i","t","y">>

D_LOG == [id |-> <<"c","f","1">>, name |-> DEFAULT_REOPEN_LOG_NAME]
D_LOG_BRACKET == [id |-> <<"c","f","2">>, name |-> NAME_LOG_BRACKET]
D_LOG_HISTORY == [id |-> <<"c","f","3">>, name |-> NAME_LOG_HISTORY]
D_MY_LOG == [id |-> <<"c","f","4">>, name |-> NAME_MY_LOG]
D_SEVERITY == [id |-> <<"c","f","5">>, name |-> NAME_SEVERITY]
D_COUNT == [id |-> <<"c","f","6">>, name |-> DEFAULT_REOPEN_COUNT_NAME]

Descriptors == {D_LOG, D_LOG_BRACKET, D_LOG_HISTORY, D_MY_LOG, D_SEVERITY, D_COUNT}

\* every descriptor list of at most n descriptors
RECURSIVE ListsUpTo(_)
ListsUpTo(n) ==
  IF n = 0 THEN {<<>>}
  ELSE LET shorter == ListsUpTo(n - 1)
       IN shorter \cup {Append(l, d) : l \in {x \in shorter : Len(x) = n - 1},
                                       d \in Descriptors}

\* the descriptor lists the exporter run is tried on
ExportFieldLists == {<<D_COUNT, D_LOG_BRACKET>>, <<D_SEVERITY, D_COUNT>>}

\* REOPEN_LOG_FIELD_ID settings: unset, a suffix of an identifier, an unknown one
LogIdOverrides == {None, <<"2">>, <<"9">>}

Environments ==
  [ok : BOOLEAN,                                   \* the three required variables
   month : {"valid", "bad_format", "bad_month"},   \* --month
   log_id : LogIdOverrides,                        \* REOPEN_LOG_FIELD_ID
   existing : BOOLEAN]                             \* --out names a file that exists

\* the file --out names before the run: absent, or left by an earlier export
NoOutFile == [exists |-> FALSE, lines |-> <<>>]
OldFile == [exists |-> TRUE, lines |-> <<HEADERS, Flatten(ServerIssue(9))>>]
InitialFile == IF env.existing THEN OldFile ELSE NoOutFile

(***************************************************************************)
(* export_jira.py: main                                                    *)
(***************************************************************************)
Exit(code, why) ==
  /\ pc' = "exit"
  /\ exit_code' = code
  /\ fatal' = why

\* lines 195-200: the required environment
CheckEnv ==
  /\ pc = "start"
  /\ IF env.ok
     THEN pc' = "month" /\ UNCHANGED <<exit_code, fatal>>
     ELSE Exit(1, "missing_env")
  /\ UNCHANGED notExportVars
  /\ UNCHANGED <<env, n_issues, all_fields, cf_ids, infos, rows, start_at, total, data,
                 calls, attempts, adopted, sane, out_file>>

\* month_to_range: exit 2 on a bad format; calendar.monthrange raises on a month
\* number outside 1..12, which ends the process with status 1
MonthToRange ==
  /\ pc = "month"
  /\ CASE env.month = "bad_format" -> Exit(2, "bad_month")
       [] env.month = "bad_month" -> Exit(1, "uncaught_exception")
       [] OTHER -> pc' = "fetch_fields" /\ UNCHANGED <<exit_code, fatal>>
  /\ UNCHANGED notExportVars
  /\ UNCHANGED <<env, n_issues, all_fields, cf_ids, infos, rows, start_at, total, data,
                 calls, attempts, adopted, sane, out_file>>

\* fetch_all_fields: exit 1 unless the answer is a success
FetchAllFields(ok, list) ==
  /\ pc = "fetch_fields"
  /\ IF ok
     THEN /\ all_fields' = list
          /\ pc' = "resolve"
          /\ UNCHANGED <<exit_code, fatal>>
     ELSE /\ Exit(1, "fields_unreadable")
          /\ UNCHANGED all_fields
  /\ UNCHANGED notExportVars
  /\ UNCHANGED <<env, n_issues, cf_ids, infos, rows, start_at, total, data,
                 calls, attempts, adopted, sane, out_file>>

\* lines 218-234: both resolutions, the fatal check, the loop's initial state
ResolveFields ==
  /\ pc = "resolve"
  /\ LET r1 == resolve_cf_id(all_fields, DEFAULT_REOPEN_COUNT_NAME, None)
         r2 == resolve_cf_id(all_fields, DEFAULT_REOPEN_LOG_NAME, env.log_id)
     IN /\ cf_ids' = <<r1.id, r2.id>>
        /\ infos' = <<r1, r2>>
        /\ IF r1.id = None \/ r2.id = None
           THEN Exit(1, "unresolved")
           ELSE pc' = "search1" /\ UNCHANGED <<exit_code, fatal>>
  /\ rows' = <<>>
  /\ start_at' = 0
  /\ total' = Missing
  /\ UNCHANGED notExportVars
  /\ UNCHANGED <<env, n_issues, all_fields, data, calls, attempts, adopted, sane,
                 out_file>>

\* the JSON bodies the tracker may answer a search at offset s with: the page
\* size and the total reported or left out, and the issues from offset s on, at
\* most a page of them and at least one when any is left and the page size allows
ServerPages(s) ==
  {p \in [first : {s + 1}, n : 0..MaxPageSize,
          maxResults : (0..MaxPageSize) \cup {Missing}, total : {n_issues, Missing}] :
     LET most == Min(IF p.maxResults = Missing THEN MaxPageSize ELSE p.maxResults,
                     Max(0, n_issues - s))
     IN p.n <= most /\ (most >= 1 => p.n >= 1)}

Outcomes == {"ok", "removed", "error", "timeout"}

\* an answer that reports the total and a page size of at least 1
SanePage(p) == p.total # Missing /\ p.maxResults # Missing /\ p.maxResults >= 1

\* lines 138-151: the enhanced endpoint's answer in the legacy shape
NormalizeEnhanced(has_results, p) ==
  IF ~has_results
  THEN [first |-> p.first, n |-> 0, maxResults |-> DEFAULT_MAX_RESULTS, total |-> 0]
  ELSE [first |-> p.first, n |-> p.n,
        maxResults |-> IF p.maxResults = Missing THEN DEFAULT_MAX_RESULTS
                       ELSE p.maxResults,
        total |-> IF p.total = Missing THEN 0 ELSE p.total]

\* a request to candidate ep answered successfully
Answered(ep, d, ok_page) ==
  /\ data' = d
  /\ adopted' = IF adopted = 0 THEN ep ELSE adopted
  /\ sane' = (sane /\ ok_page)
  /\ pc' = "page"
  /\ UNCHANGED <<exit_code, fatal>>

\* jira_search_any, candidate 1: POST /rest/api/3/jql/search
Search1(outcome, has_results, p) ==
  /\ pc = "search1"
  /\ calls < MaxCalls
  /\ calls' = calls + 1
  /\ attempts' = <<[ep |-> 1, outcome |-> outcome, after |-> adopted]>>
  /\ IF outcome = "ok"
     THEN Answered(1, NormalizeEnhanced(has_results, p), has_results /\ SanePage(p))
     ELSE /\ pc' = "search2"
          /\ UNCHANGED <<data, adopted, sane, exit_code, fatal>>
  /\ UNCHANGED notExportVars
  /\ UNCHANGED <<env, n_issues, all_fields, cf_ids, infos, rows, start_at, total,
                 out_file>>

\* jira_search_any, candidate 2: POST /rest/api/3/search
Search2(outcome, p) ==
  /\ pc = "search2"
  /\ attempts' = Append(attempts, [ep |-> 2, outcome |-> outcome, after |-> adopted])
  /\ IF outcome = "ok"
     THEN Answered(2, p, SanePage(p))
     ELSE /\ pc' = "search3"
          /\ UNCHANGED <<data, adopted, sane, exit_code, fatal>>
  /\ UNCHANGED notExportVars
  /\ UNCHANGED <<env, n_issues, all_fields, cf_ids, infos, rows, start_at, total,
                 calls, out_file>>

\* Search3 as it would be if the rows fetched so far were flushed to --out before
\* the exit on a search failure
MutSearch3_FlushOnFailure(outcome, p) ==
  /\ pc = "search3"
  /\ attempts' = Append(attempts, [ep |-> 3, outcome |-> outcome, after |-> adopted])
  /\ IF outcome = "ok"
     THEN Answered(3, p, SanePage(p)) /\ UNCHANGED out_file
     ELSE /\ Exit(1, "search_failed")
          /\ out_file' = [exists |-> TRUE, lines |-> <<HEADERS>> \o rows]
          /\ UNCHANGED <<data, adopted, sane>>
  /\ UNCHANGED notExportVars
  /\ UNCHANGED <<env, n_issues, all_fields, cf_ids, infos, rows, start_at, total,
                 calls>>

\* jira_search_any, candidate 3: POST /rest/api/3/issue/search, then exit 1
Search3(outcome, p) ==
  /\ pc = "search3"
  /\ attempts' = Append(attempts, [ep |-> 3, outcome |-> outcome, after |-> adopted])
  /\ IF outcome = "ok"
     THEN Answered(3, p, SanePage(p))
     ELSE /\ Exit(1, "search_failed")
          /\ UNCHANGED <<data, adopted, sane>>
  /\ UNCHANGED notExportVars
  /\ UNCHANGED <<env, n_issues, all_fields, cf_ids, infos, rows, start_at, total,
                 calls, out_file>>

\* lines 238-267: one iteration of main's loop after jira_search_any returned
ProcessPage ==
  /\ pc = "page"
  /\ LET new_total == IF data.total # Missing THEN data.total
                      ELSE IF total # Missing THEN total ELSE 0
         max_results == IF data.maxResults = Missing THEN DEFAULT_MAX_RESULTS
                        ELSE data.maxResults
     IN /\ total' = new_total
        /\ rows' = rows \o FlattenRange(data.first, data.first + data.n - 1)
        /\ start_at' = start_at + max_results
        /\ pc' = IF start_at + max_results >= new_total THEN "write" ELSE "search1"
  /\ UNCHANGED notExportVars
  /\ UNCHANGED <<env, n_issues, all_fields, cf_ids, infos, data, calls, attempts,
                 adopted, sane, fatal, exit_code, out_file>>

\* lines 269-274: the CSV, header first
WriteCsv ==
  /\ pc = "write"
  /\ out_file' = [exists |-> TRUE, lines |-> <<HEADERS>> \o rows]
  /\ exit_code' = 0
  /\ pc' = "exit"
  /\ UNCHANGED notExportVars
  /\ UNCHANGED <<env, n_issues, all_fields, cf_ids, infos, rows, start_at, total, data,
                 calls, attempts, adopted, sane, fatal>>

\* info1/info2 before the resolutions ran
NoInfo == [id |-> <<>>, how |-> "unset", key |-> None, listed |-> <<>>]

ExportInitState ==
  /\ pc = "start"
  /\ all_fields = <<>>
  /\ cf_ids = <<None, None>>
  /\ infos = <<NoInfo, NoInfo>>
  /\ rows = <<>>
  /\ start_at = 0
  /\ total = Missing
  /\ data = [first |-> 1, n |-> 0, maxResults |-> Missing, total |-> Missing]
  /\ calls = 0
  /\ attempts = <<>>
  /\ adopted = 0
  /\ sane = TRUE
  /\ fatal = "none"
  /\ exit_code = NotExited
  /\ out_file = InitialFile

ResolveIdle == r_pc = "idle" /\ r_in = None /\ r_res = None

NoFile == [exists |-> FALSE, header |-> <<>>, body |-> <<>>]

ReportInitState ==
  /\ df = <<>>
  /\ per_row = <<>>
  /\ all_events = <<>>
  /\ user_csv = NoFile
  /\ ticket_csv = NoFile

ReportIdle ==
  /\ rp_pc = "idle"
  /\ MONTH = <<>>
  /\ src_issues = <<>>
  /\ export_csv = [has_log |-> TRUE, rows |-> <<>>]
  /\ ReportInitState

InitExport ==
  /\ env \in Environments
  /\ n_issues \in 0..MaxIssues
  /\ ExportInitState
  /\ ResolveIdle
  /\ ReportIdle

NextExport ==
  \/ CheckEnv
  \/ MonthToRange
  \/ \E ok \in BOOLEAN, list \in ExportFieldLists : FetchAllFields(ok, list)
  \/ ResolveFields
  \/ \E o \in Outcomes, h \in BOOLEAN, p \in ServerPages(start_at) : Search1(o, h, p)
  \/ \E o \in Outcomes, p \in ServerPages(start_at) : Search2(o, p)
  \/ \E o \in Outcomes, p \in ServerPages(start_at) : Search3(o, p)
  \/ ProcessPage
  \/ WriteCsv

SpecExport == InitExport /\ [][NextExport]_vars


(***************************************************************************)
(* resolve_cf_id called on any descriptor list                             *)
(***************************************************************************)
WantedNames == {DEFAULT_REOPEN_LOG_NAME, DEFAULT_REOPEN_COUNT_NAME, NAME_LOG_BRACKET,
                <<"P","r","i","o","r","i","t","y">>}
WantedIds == {None, <<"c","f","2">>, <<"2">>, <<"9">>}

ResolveCall ==
  /\ r_pc = "call"
  /\ r_res' = resolve_cf_id(r_in.fields, r_in.name, r_in.id)
  /\ r_pc' = "done"
  /\ UNCHANGED r_in
  /\ UNCHANGED <<exportVars, reportVars>>

InitResolve ==
  /\ r_pc = "call"
  /\ r_in \in [fields : ListsUpTo(MaxFields), name : WantedNames, id : WantedIds]
  /\ r_res = None
  /\ env = [ok |-> TRUE, month |-> "valid", log_id |-> None, existing |-> FALSE]
  /\ n_issues = 0
  /\ ExportInitState
  /\ ReportIdle

NextResolve == ResolveCall

SpecResolve == InitResolve /\ [][NextResolve]_vars

(***************************************************************************)
(* reports.py: process, run on a file the exporter wrote                   *)
(***************************************************************************)
\* one reopen-log entry: a date, then the marker and the name up to the line's end
LogLine(e) == e.date \o <<" ">> \o ASSIGNEE_MARKER \o <<" ">> \o e.name

E_ALICE == [date |-> <<"2","0","2","5","-","0","9","-","0","2">>, name |-> ALICE]
E_BOB == [date |-> <<"2","0","2","5","-","0","9","-","1","5">>, name |-> BOB]
E_BEFORE == [date |-> <<"2","0","2","5","-","0","8","-","3","1">>, name |-> ALICE]
E_FIRST == [date |-> <<"2","0","2","5","-","0","9","-","0","1">>, name |-> BOB]
E_NODATE == [date |-> <<"2","0","2","5","-","1","3","-","4","5">>, name |-> BOB]

\* a reopen-log value made of entries: one multi-line string, or a list
StrLog(entries) ==
  [kind |-> "str",
   val |-> Join([i \in 1..Len(entries) |-> LogLine(entries[i])], <<"\n">>)]
ListLog(entries) ==
  [kind |-> "list", val |-> [i \in 1..Len(entries) |-> LogLine(entries[i])]]

CAROL == <<<<"C","a","r","o","l">>, <<"u","2">>>>
BUG == <<"B","u","g">>

\* an issue of the tracker; entries and shaped record how its log was made
\* (shaped: of entries, each a date and an "Assignee: <name>" marker)
Issue(key, issuetype, summary, assignee, log, shaped, entries) ==
  [key |-> key, id |-> <<"1">>, issuetype |-> issuetype, summary |-> summary,
   assignee |-> assignee, count |-> <<"1">>, log |-> log,
   shaped |-> shaped, entries |-> entries]

ReportIssues ==
  { Issue(<<"A","B","C","-","1">>, BUG, <<"s","1">>, CAROL,
          StrLog(<<E_ALICE, E_BOB>>), TRUE, <<E_ALICE, E_BOB>>),
    Issue(<<"A","B","C","-","2">>, BUG, <<"s","2">>, CAROL,
          ListLog(<<E_ALICE, E_BOB>>), TRUE, <<E_ALICE, E_BOB>>),
    Issue(<<"X","Y","-","3">>, <<"T","a","s","k">>, <<"s","3">>, None,
          StrLog(<<E_BEFORE, E_FIRST>>), TRUE, <<E_BEFORE, E_FIRST>>),
    Issue(<<"A","B","C","-","4">>, BUG, None, CAROL,
          StrLog(<<E_ALICE>>), TRUE, <<E_ALICE>>),
    Issue(<<"Q","5">>, BUG, <<"s","5">>, None,
          [kind |-> "str", val |-> E_ALICE.date \o <<" ","r","e","o","p","e","n">>],
          FALSE, <<>>),
    Issue(<<"A","B","C","-","6">>, BUG, <<"s","6">>, CAROL,
          ListLog(<<E_NODATE>>), TRUE, <<E_NODATE>>),
    Issue(<<"A","B","C","-","7">>, BUG, <<"s","7">>, CAROL,
          [kind |-> "null", val |-> <<>>], FALSE, <<>>),
    Issue(<<"A","B","C","-","8">>, None, <<"s","8">>, CAROL,
          StrLog(<<E_BOB>>), TRUE, <<E_BOB>>),
    Issue(<<"A","B","C","-","9">>, BUG, <<"s","9">>, CAROL,
          [kind |-> "str", val |-> <<"n","o"," ","d","a","t","e","\n","B","o","b">>],
          FALSE, <<>>) }

RECURSIVE IssueListsUpTo(_)
IssueListsUpTo(n) ==
  IF n = 0 THEN {<<>>}
  ELSE LET shorter == IssueListsUpTo(n - 1)
       IN shorter \cup {Append(l, i) : l \in {x \in shorter : Len(x) = n - 1},
                                       i \in ReportIssues}

Months == {<<"2","0","2","5","-","0","9">>, <<"2","0","2","5","-","0","9"," ">>,
           <<"2","0","2","5","-","9">>, <<>>}

RECURSIVE Concat(_)
Concat(seqs) == IF seqs = <<>> THEN <<>> ELSE seqs[1] \o Concat(Tail(seqs))

\* EmptyFrame as it would be if to_csv were told to leave the header out
MutEmptyFrame_NoHeader(columns) == [exists |-> TRUE, header |-> <<>>, body |-> <<>>]

\* pd.DataFrame(columns=...).to_csv(path, index=False)
EmptyFrame(columns) == [exists |-> TRUE, header |-> columns, body |-> <<>>]

\* lines 45-47: MONTH must be YYYY-MM, else ValueError
CheckMonth ==
  /\ rp_pc = "start"
  /\ rp_pc' = IF Strip(MONTH) # <<>> /\ ValidMonth(Strip(MONTH)) THEN "read"
              ELSE "raised"
  /\ UNCHANGED <<MONTH, src_issues, export_csv, df, per_row, all_events, user_csv,
                 ticket_csv>>
  /\ UNCHANGED <<exportVars, resolveVars>>

\* lines 49-55: read the file, require the reopen-log column, fill the gaps
ReadCsv ==
  /\ rp_pc = "read"
  /\ IF export_csv.has_log
     THEN /\ df' = [i \in 1..Len(export_csv.rows) |-> ReadRow(export_csv.rows[i])]
          /\ rp_pc' = "extract"
     ELSE /\ rp_pc' = "raised"
          /\ UNCHANGED df
  /\ UNCHANGED <<MONTH, src_issues, export_csv, per_row, all_events, user_csv,
                 ticket_csv>>
  /\ UNCHANGED <<exportVars, resolveVars>>

\* lines 58-60: the events of every row
ExtractEvents ==
  /\ rp_pc = "extract"
  /\ per_row' = [i \in 1..Len(df) |-> extract_reopen_events(df[i])]
  /\ all_events' = Concat(per_row')
  /\ rp_pc' = IF all_events' = <<>> THEN "empty" ELSE "aggregate"
  /\ UNCHANGED <<MONTH, src_issues, export_csv, df, user_csv, ticket_csv>>
  /\ UNCHANGED <<exportVars, resolveVars>>

\* lines 63-66: no events at all
WriteEmptyReports ==
  /\ rp_pc = "empty"
  /\ user_csv' = EmptyFrame(USER_HEADER)
  /\ ticket_csv' = EmptyFrame(TICKET_HEADER)
  /\ rp_pc' = "done"
  /\ UNCHANGED <<MONTH, src_issues, export_csv, df, per_row, all_events>>
  /\ UNCHANGED <<exportVars, resolveVars>>

\* lines 68-94: filter to the month, group, count, sort, write both files
Aggregate ==
  /\ rp_pc = "aggregate"
  /\ LET events_df == InMonthEvents(all_events, Strip(MONTH))
     IN /\ user_csv' = [exists |-> TRUE, header |-> USER_HEADER,
                        body |-> ByUser(events_df)]
        /\ ticket_csv' = [exists |-> TRUE, header |-> TICKET_HEADER,
                          body |-> ByTicket(events_df)]
  /\ rp_pc' = "done"
  /\ UNCHANGED <<MONTH, src_issues, export_csv, df, per_row, all_events>>
  /\ UNCHANGED <<exportVars, resolveVars>>

InitReport ==
  /\ rp_pc = "start"
  /\ MONTH \in Months
  /\ src_issues \in IssueListsUpTo(MaxRows)
  /\ \E has_log \in BOOLEAN :
       export_csv = [has_log |-> has_log,
                     rows |-> [i \in 1..Len(src_issues) |-> Flatten(src_issues[i])]]
  /\ ReportInitState
  /\ env = [ok |-> TRUE, month |-> "valid", log_id |-> None, existing |-> FALSE]
  /\ n_issues = 0
  /\ ExportInitState
  /\ ResolveIdle

NextReport ==
  \/ CheckMonth
  \/ ReadCsv
  \/ ExtractEvents
  \/ WriteEmptyReports
  \/ Aggregate

SpecReport == InitReport /\ [][NextReport]_vars

(***************************************************************************)
(* Properties of the exporter                                              *)
(***************************************************************************)
OtherFailures == {"error", "timeout"}

\* C1: a request that fails for a reason other than the "removed" signal is the
\* last request of the run: the run has aborted with status 1 and no further
\* candidate was requested after it.
C1_OnlyRemovedFallsBack ==
  \A i \in 1..Len(attempts) :
    attempts[i].outcome \in OtherFailures =>
      i = Len(attempts) /\ pc = "exit" /\ exit_code = 1

\* C2: every request made after some endpoint has answered successfully goes to
\* that endpoint.
C2_AdoptedExclusively ==
  \A i \in 1..Len(attempts) :
    attempts[i].after # 0 => attempts[i].ep = attempts[i].after

\* C3: with answers that report the total and a page size of at least 1 (pages
\* may hold fewer issues than that size), another page is requested exactly
\* while fewer issues than the total were fetched, and when the loop ends the
\* rows are those of all matching issues, once each, in the server's order.
C3_CompleteInOrder ==
  sane =>
    /\ (pc = "write" => rows = FlattenRange(1, n_issues))
    /\ (pc = "write" => Len(rows) >= total)
    /\ (pc = "search1" /\ calls > 0 => Len(rows) < total)

\* C5: a resolution that fails lists every descriptor whose name contains
\* "reopen", whichever way it failed, and the run aborts with status 1.
C5_FailureListsReopenFields ==
  \A i \in 1..2 :
    infos[i].how # "unset" /\ infos[i].id = None =>
      /\ infos[i].listed = ReopenCandidates(all_fields)
      /\ pc = "exit" /\ exit_code = 1

\* C6: the output file is as it was before the run (absent, or an earlier
\* export untouched) unless the run ended with status 0, and then it holds the
\* header and every accumulated row; a fatal condition ends the run with status
\* 2 (bad --month format) or 1 (any other), also after pages were fetched.
C6_OutputOnlyOnSuccess ==
  /\ exit_code # 0 => out_file = InitialFile
  /\ exit_code = 0 =>
       pc = "exit" /\ out_file = [exists |-> TRUE, lines |-> <<HEADERS>> \o rows]
  /\ fatal = "bad_month" => exit_code = 2
  /\ fatal \notin {"none", "bad_month"} => exit_code = 1
  /\ exit_code \in {1, 2} => fatal # "none"
  /\ exit_code = 2 <=> (pc = "exit" /\ env.ok /\ env.month = "bad_format")
  /\ pc = "exit" => exit_code \in {0, 1, 2}

\* C6 witness: a search failure after rows were fetched, and no file
C6_Witness ==
  /\ exit_code = 1 /\ fatal = "search_failed"
  /\ Len(rows) > 0
  /\ ~env.existing /\ ~out_file.exists

\* C10: every iteration of the pagination loop that is followed by another page
\* request has moved the start offset forward (so the requests cannot repeat).
C10_OffsetAdvances ==
  [][pc = "page" /\ pc' = "search1" => start_at' > start_at]_vars

(***************************************************************************)
(* Properties of the resolver                                              *)
(***************************************************************************)
\* the level a descriptor key matches the normalized wanted name at
\* (1 exact, 2 normalized equality, 3 prefix, 4 substring, 5 none)
MatchLevel(key, norm) ==
  IF key = norm THEN 1
  ELSE IF normalize_name(key) = norm THEN 2
  ELSE IF StartsWith(key, norm) THEN 3
  ELSE IF norm # <<>> /\ Contains(key, norm) THEN 4
  ELSE 5

BestLevel(fields, norm) ==
  LET keys == KeysInOrder(fields)
      levels == {MatchLevel(keys[i], norm) : i \in 1..Len(keys)} \cup {5}
  IN CHOOSE l \in levels : \A m \in levels : l <= m

\* C4: without an identifier override the descriptor returned matches at the
\* earliest level any descriptor of the list matches at, whatever the order of
\* the list; "Reopen log [Short text]" resolves "Reopen log" by normalized match.
C4_Precedence ==
  r_pc = "done" /\ r_in.id = None =>
    LET norm == normalize_name(r_in.name)
        best == BestLevel(r_in.fields, norm)
    IN /\ IF best = 5 THEN r_res.id = None
          ELSE /\ r_res.id # None
               /\ MatchLevel(r_res.key, norm) = best
               /\ r_res.id = ByName(r_in.fields, r_res.key)[1].id
       /\ (r_in.fields = <<D_LOG_BRACKET>> /\ r_in.name = DEFAULT_REOPEN_LOG_NAME =>
             r_res.how = "normalized" /\ r_res.id = D_LOG_BRACKET.id)


(***************************************************************************)
(* Properties of the reporter                                              *)
(***************************************************************************)
Extracted == rp_pc \in {"empty", "aggregate", "done"}

\* the events of a row are those of its entries, one each, in order
EventsMatchEntries(ev, entries) ==
  /\ Len(ev) = Len(entries)
  /\ \A j \in 1..Len(entries) :
       ev[j].date = entries[j].date /\ ev[j].assignee = entries[j].name

\* C7 as claimed: flattening an issue whose reopen log is made of n entries (a
\* multi-line string or a list) and extracting from the row yields n events
\* with the entries' dates and assignees, in order.
C7_RoundTripAnyShape ==
  Extracted =>
    \A i \in 1..Len(src_issues) :
      src_issues[i].shaped => EventsMatchEntries(per_row[i], src_issues[i].entries)

\* C7 as it holds: the round trip yields the n entries of a multi-line string
\* (and the entry of a one-entry list); a list of two or more entries is one
\* line after the "; " join and yields exactly one event, with the first
\* entry's date and, as assignee, the text from the first name to the line's end.
C7_RoundTripLines ==
  Extracted =>
    \A i \in 1..Len(src_issues) :
      LET issue == src_issues[i]
          n == Len(issue.entries)
      IN issue.shaped =>
           IF issue.log.kind = "str" \/ n <= 1
           THEN EventsMatchEntries(per_row[i], issue.entries)
           ELSE /\ Len(per_row[i]) = 1
                /\ per_row[i][1].date = issue.entries[1].date
                /\ per_row[i][1].assignee =
                     Join(<<issue.entries[1].name>>
                          \o [j \in 1..(n - 1) |-> LogLine(issue.entries[j + 1])],
                          <<";", " ">>)

\* C7 witness: a two-entry string and a two-entry list were both extracted
C7_Witness ==
  /\ Extracted
  /\ \E i \in 1..Len(src_issues) :
       /\ src_issues[i].shaped /\ src_issues[i].log.kind = "str"
       /\ Len(src_issues[i].entries) = 2 /\ Len(per_row[i]) = 2
  /\ \E i \in 1..Len(src_issues) :
       /\ src_issues[i].shaped /\ src_issues[i].log.kind = "list"
       /\ Len(src_issues[i].entries) = 2 /\ Len(per_row[i]) = 1

\* the dates of the model that are calendar dates
CalendarDates == {E_ALICE.date, E_BOB.date, E_BEFORE.date, E_FIRST.date}

\* the number of extracted events whose date is a calendar date of the month
InMonthCount ==
  Cardinality({i \in 1..Len(all_events) :
                 /\ all_events[i].date \in CalendarDates
                 /\ SubSeq(all_events[i].date, 1, 7) = Strip(MONTH)})

RECURSIVE SumCounts(_)
SumCounts(body) == IF body = <<>> THEN 0 ELSE body[1].count + SumCounts(Tail(body))

\* C8: the counts of each report add up to the number of in-month events: every
\* such event is in exactly one group of either report, whatever its row's
\* grouping columns hold.
C8_EveryEventCounted ==
  rp_pc = "done" =>
    /\ SumCounts(user_csv.body) = InMonthCount
    /\ SumCounts(ticket_csv.body) = InMonthCount

\* C9: a run whose input passes the checks writes both files, each under its
\* header, and with no in-month event each holds its header only; the run
\* raises only on a bad MONTH or a missing reopen-log column.
C9_BothReportsWritten ==
  /\ rp_pc = "done" =>
       /\ user_csv.exists /\ ticket_csv.exists
       /\ user_csv.header = USER_HEADER
       /\ ticket_csv.header = TICKET_HEADER
       /\ (InMonthCount = 0 => user_csv.body = <<>> /\ ticket_csv.body = <<>>)
  /\ rp_pc = "raised" =>
       ~(Strip(MONTH) # <<>> /\ ValidMonth(Strip(MONTH))) \/ ~export_csv.has_log
  /\ rp_pc \notin {"done", "idle"} => ~user_csv.exists /\ ~ticket_csv.exists

\* C9 witness: events were extracted, none of the target month, header-only files
C9_Witness ==
  /\ rp_pc = "done"
  /\ all_events # <<>>
  /\ InMonthCount = 0
  /\ user_csv = [exists |-> TRUE, header |-> USER_HEADER, body |-> <<>>]
  /\ ticket_csv = [exists |-> TRUE, header |-> TICKET_HEADER, body |-> <<>>]

\* the other way to an empty result: no row yields an event
C9_WitnessNoEvents ==
  /\ rp_pc = "done"
  /\ all_events = <<>>
  /\ Len(df) > 0
  /\ user_csv = [exists |-> TRUE, header |-> USER_HEADER, body |-> <<>>]

====
